---- MODULE Spec2Model ----
(***************************************************************************)
(* A model of github.com/calico32/genpass: the password sampler Generate,  *)
(* the charset normaliser NormalizeCharset, the birthday-paradox estimator *)
(* GetCollisionSeconds, the duration formatter FormatDuration and the glue *)
(* of cmd main that composes them.                                         *)
(*                                                                         *)
(* Strings are sequences of code points.  Every charset the program uses   *)
(* is ASCII, where a byte, a rune and a code point coincide, so []rune(s), *)
(* string(runes) and len(s) act on these sequences element by element.     *)
(* Arbitrary-precision integers (math/big.Int) that can leave the machine  *)
(* range are sequences of base-1000 limbs, most significant first, with    *)
(* the empty sequence for zero.                                            *)
(***************************************************************************)
EXTENDS Integers, Sequences, FiniteSets, TLC

VARIABLES
    pc,        \* where the program is: "start", "loop", "returned", "panic", "exit1", "done"
    caller,    \* who invoked the running operation: "api" or "main"
    op,        \* the operation last invoked
    args,      \* its arguments
    ret,       \* its return value (NoValue until it returns)
    reader,    \* behaviour of crypto/rand.Reader: "random", "zeros" or "failing"
    chars,     \* Generate: the sorted runes of the charset
    password,  \* Generate: the rune slice being filled
    i,         \* Generate: the loop index
    calls,     \* the GetCollisionSeconds calls that returned, each <<M, N>>, in order
    frame,     \* FormatDuration: the locals it returned from
    report     \* main: what the entropy and collision output is computed from

vars == <<pc, caller, op, args, ret, reader, chars, password, i, calls, frame, report>>

NoValue == <<"none">>

(***************************************************************************)
(* Bounds of the exploration.                                              *)
(***************************************************************************)
MaxCharsetLen == 4     \* longest charset handed to the library directly
MaxLength == 3         \* longest password asked of Generate directly

\* '!', '0' and 'a': one symbol of three of the predefined charsets.
Symbols == {33, 48, 97}

Charsets == UNION {[1..n -> Symbols] : n \in 0..MaxCharsetLen}

Readers == {"random", "zeros", "failing"}

(***************************************************************************)
(* Sequences.                                                              *)
(***************************************************************************)
Elems(s) == {s[k] : k \in 1..Len(s)}

CodeRun(a, b) == [k \in 1..(b - a + 1) |-> a + k - 1]

\* The runes of s within lo..hi in ascending order, duplicates kept: the
\* lower half of the range before the upper half.
RECURSIVE SortRange(_, _, _)
SortRange(s, lo, hi) ==
    IF Len(s) <= 1 \/ lo = hi THEN s
    ELSE LET mid == (lo + hi) \div 2
             Low(x) == x <= mid
             High(x) == x > mid
         IN  SortRange(SelectSeq(s, Low), lo, mid)
                \o SortRange(SelectSeq(s, High), mid + 1, hi)

\* slices.Sort on runes (0 .. 0x10FFFF): the same elements in ascending
\* order, duplicates kept.
SlicesSort(s) == SortRange(s, 0, 1114111)

(***************************************************************************)
(* genpass.go: the predefined charsets.                                    *)
(***************************************************************************)
CharsetHex == CodeRun(97, 102) \o CodeRun(48, 57)
CharsetLower == CodeRun(97, 122)
CharsetUpper == CodeRun(65, 90)
CharsetAlpha == CharsetLower \o CharsetUpper
CharsetNum == CodeRun(48, 57)
CharsetAlphaNum == CharsetAlpha \o CharsetNum
CharsetSpecial == <<33, 64, 35, 36, 37, 94, 38, 42, 40, 41, 95>>
CharsetAll == CharsetAlpha \o CharsetNum \o CharsetSpecial

(***************************************************************************)
(* genpass.go: NormalizeCharset.                                           *)
(***************************************************************************)
NormalizeCharset(charset) == SlicesSort(charset)

NormalizeCall ==
    /\ pc = "start"
    /\ \E charset \in Charsets :
          /\ op' = "NormalizeCharset"
          /\ args' = <<charset>>
          /\ ret' = NormalizeCharset(charset)
    /\ pc' = "returned"
    /\ caller' = "api"
    /\ UNCHANGED <<reader, chars, password, i, calls, frame, report>>

(***************************************************************************)
(* genpass.go: Generate.  The loop runs one draw per step; rand.Int is     *)
(* crypto/rand.Int: it panics on max <= 0, returns 0 without reading when  *)
(* max = 1, and otherwise returns the reader's error or a value of         *)
(* [0, max).                                                               *)
(***************************************************************************)
MakeRunes(length) == [k \in 1..length |-> 0]

\* for i := range length: the loop is over once i reaches length.
LoopDoneEarly(idx, length) == idx >= length - 1
LoopDone(idx, length) == idx >= length

RandIntPanics(max) == max <= 0

RandIntFails(max, rd) == max > 1 /\ rd = "failing"

RandIntValues(max, rd) ==
    IF max = 1 \/ rd = "zeros" THEN {0} ELSE 0..(max - 1)

\* Lines 26-30: the prologue of Generate, up to the loop.
GenerateEnter(charset, length, who) ==
    /\ op' = "Generate"
    /\ args' = <<charset, length>>
    /\ ret' = NoValue
    /\ caller' = who
    /\ chars' = SlicesSort(charset)
    /\ i' = 0
    /\ IF length < 0
          THEN pc' = "panic" /\ password' = <<>>      \* make([]rune, length) panics
          ELSE pc' = "loop" /\ password' = MakeRunes(length)

GenerateCall ==
    /\ pc = "start"
    /\ \E charset \in Charsets, length \in (-1)..MaxLength :
          GenerateEnter(charset, length, "api")
    /\ UNCHANGED <<reader, calls, frame, report>>

GenerateDraw ==
    /\ pc = "loop"
    /\ ~LoopDone(i, args[2])
    /\ IF RandIntPanics(Len(chars)) \/ RandIntFails(Len(chars), reader)
          THEN /\ pc' = "panic"
               /\ UNCHANGED <<password, i>>
          ELSE /\ \E j \in RandIntValues(Len(chars), reader) :
                     password' = [password EXCEPT ![i + 1] = chars[j + 1]]
               /\ i' = i + 1
               /\ pc' = "loop"
    /\ UNCHANGED <<caller, op, args, ret, reader, chars, calls, frame, report>>

GenerateReturn ==
    /\ pc = "loop"
    /\ LoopDone(i, args[2])
    /\ ret' = password
    /\ pc' = "returned"
    /\ UNCHANGED <<caller, op, args, reader, chars, password, i, calls, frame, report>>

(***************************************************************************)
(* collision.go: GetCollisionSeconds.  The possible-password counts of     *)
(* this part stay below MaxSpace, so they are machine integers here.       *)
(* factor = 2 * math.Log(1 / (1 - 0.01)) = 0.0201006717070030... is the    *)
(* ratio FactorNum / FactorDen to eight decimal places; no product M *     *)
(* factor with M <= 795 lies within 1e-6 of a perfect square, so neither   *)
(* that rounding nor big.Float's own changes the integer part of the root. *)
(***************************************************************************)
MaxSpace == 200        \* largest possible-password count given to the estimator
MaxCharsetSize == 12   \* largest charsetLen given to GetCollisionSecondsFromLength

FactorNum == 2010067
FactorDen == 100000000

\* The integer part of sqrt(num / den), for num >= 0.
RECURSIVE RootFrom(_, _, _)
RootFrom(n, num, den) ==
    IF (n + 1) * (n + 1) * den > num THEN n ELSE RootFrom(n + 1, num, den)

\* big.Float.Sqrt panics with ErrNaN on a negative operand.
SqrtPanicsOnZero(M) == M <= 0
SqrtPanics(M) == M < 0

\* sqrt.Int(n): the root truncated toward zero.  (Narrow: the count cut to
\* seven bits first, as a narrowing conversion would.)
GetCollisionSecondsNarrow(M) == RootFrom(0, (M % 128) * FactorNum, FactorDen)
GetCollisionSeconds(M) == RootFrom(0, M * FactorNum, FactorDen)

\* big.Int.Exp(x, y, nil): x^y, and 1 when y <= 0.
RECURSIVE Exp(_, _)
Exp(x, y) == IF y <= 0 THEN 1 ELSE x * Exp(x, y - 1)

Record(M, N) == Append(calls, <<M, N>>)

\* The estimator is called once or twice in a run: two results are what a
\* comparison between calls needs.

CollisionEnter(M) ==
    IF SqrtPanics(M)
        THEN pc' = "panic" /\ ret' = NoValue /\ UNCHANGED calls
        ELSE /\ pc' = "returned"
             /\ ret' = GetCollisionSeconds(M)
             /\ calls' = Record(M, GetCollisionSeconds(M))

GetCollisionSecondsCall ==
    /\ pc \in {"start", "returned"}
    /\ Len(calls) < 2
    /\ \E M \in (-1)..MaxSpace :
          /\ op' = "GetCollisionSeconds"
          /\ args' = <<M>>
          /\ CollisionEnter(M)
    /\ caller' = "api"
    /\ UNCHANGED <<reader, chars, password, i, frame, report>>

GetCollisionSecondsFromLengthCall ==
    /\ pc \in {"start", "returned"}
    /\ Len(calls) < 2
    /\ \E charsetLen \in (-1)..MaxCharsetSize, passwordLen \in (-1)..MaxLength :
          /\ Exp(charsetLen, passwordLen) <= MaxSpace
          /\ op' = "GetCollisionSecondsFromLength"
          /\ args' = <<charsetLen, passwordLen>>
          /\ CollisionEnter(Exp(charsetLen, passwordLen))
    /\ caller' = "api"
    /\ UNCHANGED <<reader, chars, password, i, frame, report>>

(***************************************************************************)
(* math/big.Int as a sequence of limbs in base 1000, most significant      *)
(* first, without leading zero limbs; the empty sequence is zero.          *)
(***************************************************************************)
RECURSIVE Strip(_)
Strip(a) == IF a # <<>> /\ Head(a) = 0 THEN Strip(Tail(a)) ELSE a

\* big.NewInt(n) for n >= 0.
RECURSIVE BigFromInt(_)
BigFromInt(n) == IF n = 0 THEN <<>> ELSE Append(BigFromInt(n \div 1000), n % 1000)

\* The limb of a at position k once a is right-aligned in n limbs.
LimbAt(a, n, k) == IF k > n - Len(a) THEN a[k - (n - Len(a))] ELSE 0

RECURSIVE CmpFrom(_, _, _)
CmpFrom(a, b, k) ==
    IF k > Len(a) THEN 0
    ELSE IF a[k] < b[k] THEN -1
    ELSE IF a[k] > b[k] THEN 1
    ELSE CmpFrom(a, b, k + 1)

\* x.Cmp(y): -1, 0 or 1.
BigCmp(a, b) ==
    IF Len(a) < Len(b) THEN -1
    ELSE IF Len(a) > Len(b) THEN 1
    ELSE CmpFrom(a, b, 1)

RECURSIVE AddFrom(_, _, _, _, _)
AddFrom(a, b, n, k, carry) ==
    IF k = 0 THEN BigFromInt(carry)
    ELSE LET t == LimbAt(a, n, k) + LimbAt(b, n, k) + carry
         IN  IF t < 1000 THEN AddFrom(a, b, n, k - 1, 0) \o <<t>>
             ELSE AddFrom(a, b, n, k - 1, 1) \o <<t - 1000>>

BigAdd(a, b) ==
    LET n == IF Len(a) > Len(b) THEN Len(a) ELSE Len(b)
    IN  AddFrom(a, b, n, n, 0)

RECURSIVE SubFrom(_, _, _, _)
SubFrom(a, b, k, borrow) ==
    IF k = 0 THEN <<>>
    ELSE LET d == a[k] - LimbAt(b, Len(a), k) - borrow
         IN  IF d < 0 THEN SubFrom(a, b, k - 1, 1) \o <<d + 1000>>
             ELSE SubFrom(a, b, k - 1, 0) \o <<d>>

\* a - b for a >= b.
BigSub(a, b) == Strip(SubFrom(a, b, Len(a), 0))

RECURSIVE MulFrom(_, _, _, _)
MulFrom(a, m, k, carry) ==
    IF k = 0 THEN BigFromInt(carry)
    ELSE LET t == a[k] * m + carry
             c == t \div 1000
         IN  IF c = 0 THEN MulFrom(a, m, k - 1, 0) \o <<t>>
             ELSE MulFrom(a, m, k - 1, c) \o <<t % 1000>>

\* a * m for one limb m.
BigMulLimb(a, m) == Strip(MulFrom(a, m, Len(a), 0))

\* a * b, one limb of b at a time from the most significant.
RECURSIVE MulAcc(_, _, _)
MulAcc(a, b, j) ==
    IF j = 0 THEN <<>>
    ELSE BigAdd(Strip(Append(MulAcc(a, b, j - 1), 0)), BigMulLimb(a, b[j]))

\* z.Mul(a, b)
BigMul(a, b) == MulAcc(a, b, Len(b))

\* The largest q of lo..hi with q * b <= r.
RECURSIVE QuotLimb(_, _, _, _)
QuotLimb(r, b, lo, hi) ==
    IF lo = hi THEN lo
    ELSE LET mid == (lo + hi + 1) \div 2
         IN  IF BigCmp(BigMulLimb(b, mid), r) <= 0
                 THEN QuotLimb(r, b, mid, hi)
                 ELSE QuotLimb(r, b, lo, mid - 1)

RECURSIVE DivFrom(_, _, _, _, _)
DivFrom(a, b, k, rem, quot) ==
    IF k > Len(a) THEN quot
    ELSE LET r == Strip(Append(rem, a[k]))
             q == QuotLimb(r, b, 0, 999)
         IN  DivFrom(a, b, k + 1, BigSub(r, BigMulLimb(b, q)), Strip(Append(quot, q)))

\* z.Div(a, b) for a >= 0 and b > 0: schoolbook long division.  The leading
\* Len(b) - 1 limbs of a are below b, so they start as the remainder.
BigDiv(a, b) ==
    IF Len(a) < Len(b) THEN <<>>
    ELSE DivFrom(a, b, Len(b), SubSeq(a, 1, Len(b) - 1), <<>>)

\* new(big.Int).Exp(big.NewInt(10), big.NewInt(pow), nil)
TenTo(pow) == <<Exp(10, pow % 3)>> \o [k \in 1..(pow \div 3) |-> 0]

\* A limb below the leading one prints as three digits.
LimbString(l) ==
    IF l < 10 THEN "00" \o ToString(l)
    ELSE IF l < 100 THEN "0" \o ToString(l)
    ELSE ToString(l)

RECURSIVE LimbsString(_)
LimbsString(a) ==
    IF a = <<>> THEN "" ELSE LimbString(Head(a)) \o LimbsString(Tail(a))

\* x.String(): the decimal digits.
BigString(a) == IF a = <<>> THEN "0" ELSE ToString(Head(a)) \o LimbsString(Tail(a))

(***************************************************************************)
(* collision.go: the unit ladder and FormatDuration.  A unit name is kept  *)
(* as its words; the name itself joins them with single spaces, and it     *)
(* contains a space exactly when it has more than one word.                *)
(***************************************************************************)
oneYear == BigFromInt(31536000)

log10years(pow) == BigMul(TenTo(pow), oneYear)

Unit(words, value) == [name |-> words, value |-> value]

Illion(word, pow) == Unit(<<word, "years">>, log10years(pow))

units ==
    << Unit(<<"second">>, BigFromInt(1)),
       Unit(<<"minute">>, BigFromInt(60)),
       Unit(<<"hour">>, BigFromInt(3600)),
       Unit(<<"day">>, BigFromInt(86400)),
       Unit(<<"year">>, oneYear),
       Illion("thousand", 3),
       Illion("million", 6),
       Illion("billion", 9),
       Illion("trillion", 12),
       Illion("quadrillion", 15),
       Illion("quintillion", 18),
       Illion("sextillion", 21),
       Illion("septillion", 24),
       Illion("octillion", 27),
       Illion("nonillion", 30),
       Illion("decillion", 33),
       Illion("undecillion", 36),
       Illion("duodecillion", 39),
       Illion("tredecillion", 42),
       Illion("quattuordecillion", 45),
       Illion("quindecillion", 48),
       Illion("sexdecillion", 51),
       Illion("septendecillion", 54),
       Illion("octodecillion", 57),
       Illion("novemdecillion", 60),
       Illion("vigintillion", 63),
       Illion("unvigintillion", 66),
       Illion("duovigintillion", 69),
       Illion("trevigintillion", 72),
       Illion("quattuorvigintillion", 75),
       Illion("quinvigintillion", 78),
       Illion("sexvigintillion", 81),
       Illion("septenvigintillion", 84),
       Illion("octovigintillion", 87),
       Illion("novemvigintillion", 90),
       Illion("trigintillion", 93),
       Illion("untrigintillion", 96),
       Illion("duotrigintillion", 99),
       Illion("googol", 100) >>

RECURSIVE JoinWords(_)
JoinWords(words) ==
    IF Len(words) = 1 THEN words[1]
    ELSE words[1] \o " " \o JoinWords(Tail(words))

\* strings.Contains(unitName, " ")
ContainsSpace(words) == Len(words) > 1

limitSeconds == BigMul(log10years(100), BigFromInt(999))

\* Line 64: the eternity cutoff.
PastLimitStrict(seconds) == BigCmp(seconds, limitSeconds) > 0
PastLimit(seconds) == BigCmp(seconds, limitSeconds) >= 0

\* Line 69: the unit at index k applies.
UnitAppliesStrict(seconds, k) == BigCmp(seconds, units[k].value) > 0
UnitApplies(seconds, k) == BigCmp(seconds, units[k].value) >= 0

\* Line 72: the displayed number.
Quotient(seconds, unitSeconds) == BigDiv(seconds, unitSeconds)

\* Lines 73-78: the unit name as printed.
PrintedName(words, result) ==
    IF ~ContainsSpace(words) /\ BigCmp(result, BigFromInt(1)) = 0
        THEN JoinWords(words) \o "s"
        ELSE JoinWords(words)

\* Lines 70-79: the body of the loop once units[k] applies.
Render(seconds, k) ==
    LET result == Quotient(seconds, units[k].value)
    IN  [text |-> BigString(result) \o " " \o PrintedName(units[k].name, result),
         unit |-> k,
         result |-> result]

\* Lines 68-83: the scan from the largest unit downward stops at the first
\* unit that applies, which is the applying unit of the largest index.
Scan(seconds) ==
    LET hits == {k \in 1..Len(units) : UnitApplies(seconds, k)}
    IN  IF hits = {}
            THEN [text |-> "less than a second", unit |-> 0, result |-> <<>>]
            ELSE Render(seconds, CHOOSE k \in hits : \A j \in hits : j <= k)

\* FormatDuration: the string returned (text) with the locals it was built
\* from (unit is the index into units, 0 for the two literal strings).
FormatDuration(seconds) ==
    IF PastLimit(seconds)
        THEN [text |-> "an eternity", unit |-> 0, result |-> <<>>]
        ELSE Scan(seconds)

MaxPow == 104          \* seconds up to 10^MaxPow times a mantissa are formatted

\* Mantissas whose decimal shifts are the unit magnitudes (6 -> 60, 36 -> 3600,
\* 864 -> 86400, 31536 -> 31536000 and on) and the cutoff 999 * 31536 * 10^103.
Mantissas == {0, 1, 2, 6, 36, 864, 31536, 63072, 31504464}

\* mantissa * 10^pow - below
SecondsOf(mantissa, pow, below) ==
    LET n == BigMul(TenTo(pow), BigFromInt(mantissa))
    IN  IF below = 0 \/ n = <<>> THEN n ELSE BigSub(n, BigFromInt(below))

FormatEnter(seconds) ==
    /\ op' = "FormatDuration"
    /\ args' = <<seconds>>
    /\ frame' = FormatDuration(seconds)
    /\ ret' = frame'.text

FormatDurationCall ==
    /\ pc = "start"
    /\ \E mantissa \in Mantissas, pow \in 0..MaxPow, below \in {0, 1} :
          FormatEnter(SecondsOf(mantissa, pow, below))
    /\ pc' = "returned"
    /\ caller' = "api"
    /\ UNCHANGED <<reader, chars, password, i, calls, report>>

(***************************************************************************)
(* bin/genpass/main.go: main.  The flags and the length argument are the   *)
(* inputs; report holds main's locals and, at the end, what the entropy    *)
(* and collision lines are computed from.  What main prints (the password, *)
(* its base64 form, the formatted numbers) is output only and not state.   *)
(***************************************************************************)
When(flag, charset) == IF flag THEN charset ELSE <<>>

\* Lines 53-75: the charset the flags select, CharsetAll when none is given.
FlagCharset(hex, alpha, lower, upper, number, special) ==
    LET charset == When(hex, CharsetHex) \o When(alpha, CharsetAlpha)
                     \o When(lower, CharsetLower) \o When(upper, CharsetUpper)
                     \o When(number, CharsetNum) \o When(special, CharsetSpecial)
    IN  IF charset = <<>> THEN CharsetAll ELSE charset

DefaultLength == 16

\* The length argument: absent, not a number, or a number.
LengthArgs == {<<"none">>, <<"invalid">>} \cup {<<"int", n>> : n \in (-1)..MaxLength}

\* Lines 77-89: the length, doubled for --bytes with --hex.
MainLength(arg, hex, bytes) ==
    LET length == IF arg[1] = "int" THEN arg[2] ELSE DefaultLength
    IN  IF bytes /\ hex THEN length * 2 ELSE length

MainEnter(hex, alpha, lower, upper, number, special, bytes, base64, arg) ==
    LET length == MainLength(arg, hex, bytes)
        charset == NormalizeCharset(FlagCharset(hex, alpha, lower, upper, number, special))
    IN  IF arg[1] = "invalid" \/ (base64 /\ hex /\ length % 2 # 0)
            THEN /\ pc' = "exit1"
                 /\ op' = "main"
                 /\ caller' = "main"
                 /\ report' = NoValue
                 /\ UNCHANGED <<args, ret, chars, password, i>>
            ELSE /\ report' = [charset |-> charset, length |-> length]
                 /\ GenerateEnter(charset, length, "main")

MainCall ==
    /\ pc = "start"
    /\ \E hex \in BOOLEAN, alpha \in BOOLEAN, lower \in BOOLEAN, upper \in BOOLEAN,
          number \in BOOLEAN, special \in BOOLEAN, bytes \in BOOLEAN,
          base64 \in BOOLEAN, arg \in LengthArgs :
          MainEnter(hex, alpha, lower, upper, number, special, bytes, base64, arg)
    /\ UNCHANGED <<reader, calls, frame>>

\* Lines 111-141: --entropy and --collisions read len(charset) and length.
MainReport ==
    /\ pc = "returned"
    /\ caller = "main"
    /\ \E entropy \in BOOLEAN, collisions \in BOOLEAN :
          report' = [charset |-> report.charset,
                     length |-> report.length,
                     password |-> ret,
                     entropyOf |-> IF entropy
                                     THEN <<Len(report.charset), report.length>>
                                     ELSE NoValue,
                     possibilitiesOf |-> IF collisions
                                           THEN <<Len(report.charset), report.length>>
                                           ELSE NoValue]
    /\ pc' = "done"
    /\ UNCHANGED <<caller, op, args, ret, reader, chars, password, i, calls, frame>>

(***************************************************************************)
(* Initial state and the specifications.                           *)
(***************************************************************************)
Start ==
    /\ pc = "start"
    /\ caller = "api"
    /\ op = "none"
    /\ args = <<>>
    /\ ret = NoValue
    /\ chars = <<>>
    /\ password = <<>>
    /\ i = 0
    /\ calls = <<>>
    /\ frame = NoValue
    /\ report = NoValue

\* The sampler runs against every behaviour of the entropy source; the pure
\* functions never read it.
Init == Start /\ reader \in Readers
InitPure == Start /\ reader = "random"

\* main prints the password and never reads it back for the entropy or the
\* collision lines, so it runs against the two extreme sources.
InitMain == Start /\ reader \in {"zeros", "failing"}

NextGenerate == GenerateCall \/ GenerateDraw \/ GenerateReturn
SpecGenerate == Init /\ [][NextGenerate]_vars

NextNormalize == NormalizeCall
SpecNormalize == InitPure /\ [][NextNormalize]_vars

NextCollision == GetCollisionSecondsCall \/ GetCollisionSecondsFromLengthCall
SpecCollision == InitPure /\ [][NextCollision]_vars

NextFormat == FormatDurationCall
SpecFormat == InitPure /\ [][NextFormat]_vars

NextMain == MainCall \/ GenerateDraw \/ GenerateReturn \/ MainReport
SpecMain == InitMain /\ [][NextMain]_vars

(***************************************************************************)
(* Properties.                                                             *)
(***************************************************************************)
Returned(name) == op = name /\ pc = "returned"

IsStrictlyAscending(s) == \A k \in 1..(Len(s) - 1) : s[k] < s[k + 1]

HasNoDuplicate(s) == \A j, k \in 1..Len(s) : s[j] = s[k] => j = k

BigLeq(a, b) == BigCmp(a, b) <= 0

BigLess(a, b) == BigCmp(a, b) < 0

\* The possible-password count the estimator was last entered with.
CurrentSpace ==
    IF op = "GetCollisionSeconds" THEN args[1] ELSE Exp(args[1], args[2])

EstimatorEntered == op \in {"GetCollisionSeconds", "GetCollisionSecondsFromLength"}

\* C1: Generate(alphabet, n) with an alphabet of size >= 1 and n >= 0 returns
\* exactly n symbols, each a member of the alphabet; an alphabet of size 1
\* gives n copies of its single symbol.
C1_GenerateLengthAndMembership ==
    (Returned("Generate") /\ Len(args[1]) >= 1 /\ args[2] >= 0) =>
        /\ Len(ret) = args[2]
        /\ \A k \in 1..Len(ret) : ret[k] \in Elems(args[1])
        /\ Len(args[1]) = 1 => \A k \in 1..Len(ret) : ret[k] = args[1][1]

C1_Witness ==
    /\ Returned("Generate")
    /\ Len(ret) = 3
    /\ Cardinality(Elems(ret)) = 3
    /\ Elems(ret) = Elems(args[1])

\* C2: for every possible-space M >= 1 the estimator returns
\* N = ceil(sqrt(2 * M * ln(100/99))): N is rounded up, never down, so
\* N * N >= 2 * M * ln(100/99) > (N - 1) * (N - 1), and
\* GetCollisionSecondsFromLength(10, 1) = 1.
C2_RoundedUp ==
    (EstimatorEntered /\ pc = "returned" /\ CurrentSpace >= 1) =>
        /\ ret * ret * FactorDen >= CurrentSpace * FactorNum
        /\ (ret - 1) * (ret - 1) * FactorDen < CurrentSpace * FactorNum
        /\ (op = "GetCollisionSecondsFromLength" /\ args = <<10, 1>>) => ret = 1

\* C3: for 1 <= s < limit, a single-word unit is printed in the singular
\* exactly when the displayed quotient is 1 and with a trailing "s"
\* otherwise; a multi-word unit name is never altered; FormatDuration(1) =
\* "1 second", FormatDuration(2) = "2 seconds", FormatDuration(31536000) =
\* "1 year", FormatDuration(63072000) = "2 years".
C3_Pluralization ==
    (Returned("FormatDuration") /\ frame.unit >= 1) =>
        LET words == units[frame.unit].name
            number == BigString(frame.result)
        IN  /\ (Len(words) = 1 /\ frame.result = <<1>>) =>
                   ret = number \o " " \o words[1]
            /\ (Len(words) = 1 /\ frame.result # <<1>>) =>
                   ret = number \o " " \o words[1] \o "s"
            /\ Len(words) > 1 => ret = number \o " " \o JoinWords(words)
            /\ args[1] = <<1>> => ret = "1 second"
            /\ args[1] = <<2>> => ret = "2 seconds"
            /\ args[1] = <<31, 536, 0>> => ret = "1 year"
            /\ args[1] = <<63, 72, 0>> => ret = "2 years"

\* C4: NormalizeCharset returns the canonical alphabet: strictly ascending
\* by code point, no symbol twice, and exactly the symbols of the input (so
\* permutations and repetitions of the same symbols normalise alike).
C4_Canonical ==
    Returned("NormalizeCharset") =>
        /\ IsStrictlyAscending(ret)
        /\ HasNoDuplicate(ret)
        /\ Elems(ret) = Elems(args[1])

EternityBound == <<315, 44, 640>> \o [k \in 1..34 |-> 0]

C7_EmptyAlphabetRejected ==
    (op = "Generate" /\ args[1] = <<>> /\ args[2] >= 0) => pc # "returned"

C9_Monotone ==
    \A a, b \in 1..Len(calls) :
        (1 <= calls[a][1] /\ calls[a][1] < calls[b][1]) => calls[a][2] <= calls[b][2]

C9_Witness ==
    /\ Len(calls) = 2
    /\ calls[2][1] < calls[1][1]
    /\ calls[2][1] >= 1
    /\ calls[2][2] = 1
    /\ calls[1][2] = 2

\* C10: for every combination of the charset flags, the alphabet main hands
\* to Generate holds every symbol at most once (so every symbol has exactly
\* one index of the uniform draw), and the len(alphabet) behind the entropy
\* and the possible-password count is the number of distinct symbols.
C10_MainAlphabetDistinct ==
    (caller = "main" /\ op = "Generate") =>
        /\ HasNoDuplicate(args[1])
        /\ HasNoDuplicate(chars)
        /\ (pc = "done" /\ report.entropyOf # NoValue) =>
               report.entropyOf[1] = Cardinality(Elems(report.charset))
        /\ (pc = "done" /\ report.possibilitiesOf # NoValue) =>
               report.possibilitiesOf[1] = Cardinality(Elems(report.charset))

====
